---------------------------- MODULE Spec2Model ----------------------------
(***************************************************************************)
(* Model of the inquiry intake API (src/src/routes/inquiries.ts mounted by *)
(* src/src/server.ts): payload validation and classification, the parent   *)
(* and partner transactions, the detached notification calls and the admin *)
(* listing / status update.                                                *)
(*                                                                         *)
(* Text is a sequence of one-character strings, so that lengths, trimming, *)
(* concatenation and pattern matching are computed and not assumed.  The   *)
(* enumerated codes (age-group and organization-type codes, statuses) are  *)
(* atoms.  A JSON value is a record tagged with its type.                  *)
(***************************************************************************)
EXTENDS Integers, Sequences, FiniteSets, TLC

VARIABLES
    age_groups,          \* reference table: rows [id, code, active, sort_order]
    organization_types,  \* reference table: rows [id, code, active]
    env,                 \* process.env: the settings the handlers read
    db,                  \* the committed tables written by the API
    tx,                  \* per handler: the writes of its open transaction
    nlLock,              \* per email: the handler holding the row lock of the upsert
    pc,                  \* per handler: its position in router.post("/")
    req,                 \* per handler: the validated payload and the locals of the run
    resp,                \* per handler: the last response of router.post("/")
    calls,               \* the detached notification calls and their state
    adminResp,           \* the last response of an admin route
    nextId,              \* the next identifier the store generates
    clock,               \* the store's now()
    hist                 \* history: what has been committed, per submission and email

vars == <<age_groups, organization_types, env, db, tx, nlLock, pc, req, resp,
          calls, adminResp, nextId, clock, hist>>

-----------------------------------------------------------------------------
(* Bounds of the model *)

MaxSubmissions == 2   \* submissions that pass validation
MaxUpdates == 2       \* status updates that reach the store
MaxNotified == 1      \* submissions accepted while the channels are followed

Handlers == {"h1", "h2"}

-----------------------------------------------------------------------------
(* JSON values *)

Undef == [t |-> "undef"]
Null == [t |-> "null"]
Str(s) == [t |-> "str", v |-> s]
Num(n) == [t |-> "num", v |-> n]
Bool(b) == [t |-> "bool", v |-> b]
Arr(a) == [t |-> "arr", v |-> a]

(* JavaScript truthiness of a value whose string form is text / an atom *)
TruthyText(x) ==
    CASE x.t = "undef" -> FALSE
      [] x.t = "null" -> FALSE
      [] x.t = "bool" -> x.v
      [] x.t = "num" -> x.v # 0
      [] x.t = "str" -> x.v # <<>>
      [] OTHER -> TRUE

TruthyCode(x) ==
    CASE x.t = "undef" -> FALSE
      [] x.t = "null" -> FALSE
      [] x.t = "bool" -> x.v
      [] x.t = "num" -> x.v # 0
      [] x.t = "str" -> x.v # ""
      [] OTHER -> TRUE

(* Text helpers *)
Rep(c, n) == [i \in 1..n |-> c]

RECURSIVE TrimLeft(_)
TrimLeft(s) == IF s # <<>> /\ Head(s) = " " THEN TrimLeft(Tail(s)) ELSE s

RECURSIVE TrimRight(_)
TrimRight(s) ==
    IF s # <<>> /\ s[Len(s)] = " " THEN TrimRight(SubSeq(s, 1, Len(s) - 1)) ELSE s

Trim(s) == TrimRight(TrimLeft(s))

UpperChars ==
    <<"A", "B", "C", "D", "E", "F", "G", "H", "I", "J", "K", "L", "M",
      "N", "O", "P", "Q", "R", "S", "T", "U", "V", "W", "X", "Y", "Z">>

LowerChars ==
    <<"a", "b", "c", "d", "e", "f", "g", "h", "i", "j", "k", "l", "m",
      "n", "o", "p", "q", "r", "s", "t", "u", "v", "w", "x", "y", "z">>

Lower(c) ==
    IF \E i \in 1..Len(UpperChars) : UpperChars[i] = c
    THEN LowerChars[CHOOSE i \in 1..Len(UpperChars) : UpperChars[i] = c]
    ELSE c

LowerText(s) == [i \in 1..Len(s) |-> Lower(s[i])]

Website == <<"w", "e", "b", "s", "i", "t", "e">>
PartnersPage == <<"p", "a", "r", "t", "n", "e", "r", "s", "-", "p", "a", "g", "e">>


-----------------------------------------------------------------------------
(* Joi rules, each returning the set of violations <<field, rule>> it finds; *)
(* the union over a schema is the list returned under abortEarly: false.     *)

StringRule(f, x, min, max, required, allowEmptyNull) ==
    IF x.t = "undef" THEN (IF required THEN {<<f, "any.required">>} ELSE {})
    ELSE IF allowEmptyNull /\ x.t = "null" THEN {}
    ELSE IF x.t # "str" THEN {<<f, "string.base">>}
    ELSE IF x.v = <<>>
         THEN (IF allowEmptyNull THEN {} ELSE {<<f, "string.empty">>})
    ELSE (IF Len(x.v) < min THEN {<<f, "string.min">>} ELSE {})
         \cup (IF Len(x.v) > max THEN {<<f, "string.max">>} ELSE {})

(* Joi.string().email(): one "@", a non-empty local part, and a domain of at *)
(* least two non-empty labels.  The registry of top-level domains is not     *)
(* modelled.                                                                 *)
IsEmail(s) ==
    \E i \in 1..Len(s) :
        /\ s[i] = "@"
        /\ \A j \in 1..Len(s) : s[j] = "@" => j = i
        /\ i > 1
        /\ \E k \in (i + 2)..(Len(s) - 1) : s[k] = "."
        /\ s[i + 1] # "." /\ s[Len(s)] # "."
        /\ \A k \in (i + 1)..(Len(s) - 1) : ~(s[k] = "." /\ s[k + 1] = ".")
        /\ \A k \in 1..Len(s) : s[k] # " "

EmailRule(f, x) ==
    LET base == StringRule(f, x, 0, 320, TRUE, FALSE)
    IN  IF base = {} /\ ~IsEmail(x.v) THEN {<<f, "string.email">>} ELSE base

ValidRule(f, x, allowed, required) ==
    IF x.t = "undef" THEN (IF required THEN {<<f, "any.required">>} ELSE {})
    ELSE IF x.t = "str" /\ x.v \in allowed THEN {}
    ELSE {<<f, "any.only">>}

KidsRule(f, x) ==
    IF x.t = "undef" THEN {}
    ELSE IF x.t # "num" THEN {<<f, "number.base">>}
    ELSE (IF x.v < 1 THEN {<<f, "number.min">>} ELSE {})
         \cup (IF x.v > 12 THEN {<<f, "number.max">>} ELSE {})

AgeGroupCodes == {"6-9", "9-13", "13-16", "16+"}

OrgTypeCodes ==
    {"government", "nonprofit", "school", "library", "corporate_sponsor",
     "faith_community", "other"}

AgeGroupsRule(f, x) ==
    IF x.t = "undef" THEN {<<f, "any.required">>}
    ELSE IF x.t # "arr" THEN {<<f, "array.base">>}
    ELSE (IF \E i \in 1..Len(x.v) : x.v[i] \notin AgeGroupCodes
          THEN {<<f, "any.only">>} ELSE {})
         \cup (IF Len(x.v) < 1 THEN {<<f, "array.min">>} ELSE {})

BoolRule(f, x) ==
    IF x.t \in {"undef", "bool"} THEN {} ELSE {<<f, "boolean.base">>}

ConsentRule(f, x) ==
    IF x.t = "undef" THEN {<<f, "any.required">>}
    ELSE IF x.t = "bool" /\ x.v THEN {}
    ELSE {<<f, "any.only">>}

Default(x, d) == IF x.t = "undef" THEN d ELSE x

(* parentSchema.validate(body, {abortEarly: false}): [error, value] *)
parentSchema(body) ==
    [error |->
        StringRule("firstName", body.firstName, 1, 100, TRUE, FALSE)
        \cup StringRule("lastName", body.lastName, 1, 100, TRUE, FALSE)
        \cup EmailRule("email", body.email)
        \cup StringRule("phone", body.phone, 0, 50, FALSE, TRUE)
        \cup KidsRule("numberOfKids", body.numberOfKids)
        \cup AgeGroupsRule("ageGroups", body.ageGroups)
        \cup StringRule("message", body.message, 0, 2000, FALSE, TRUE)
        \cup BoolRule("newsletterOptIn", body.newsletterOptIn)
        \cup ConsentRule("consent", body.consent)
        \cup StringRule("source", body.source, 0, 120, FALSE, FALSE)
        \cup StringRule("pagePath", body.pagePath, 0, 512, FALSE, TRUE),
     value |->
        [firstName |-> body.firstName, lastName |-> body.lastName,
         email |-> body.email, phone |-> body.phone,
         numberOfKids |-> Default(body.numberOfKids, Num(1)),
         ageGroups |-> body.ageGroups, message |-> body.message,
         newsletterOptIn |-> Default(body.newsletterOptIn, Bool(FALSE)),
         consent |-> body.consent,
         source |-> Default(body.source, Str(Website)),
         pagePath |-> body.pagePath]]

(* orgTypeOther: Joi.string().max(200).when("orgType", {is: "other", then: required}) *)
OrgTypeOtherRule(f, x, orgType) ==
    StringRule(f, x, 0, 200, orgType.t = "str" /\ orgType.v = "other", FALSE)

partnerSchema(body) ==
    [error |->
        ValidRule("orgType", body.orgType, OrgTypeCodes, TRUE)
        \cup OrgTypeOtherRule("orgTypeOther", body.orgTypeOther, body.orgType)
        \cup StringRule("orgName", body.orgName, 2, 200, TRUE, FALSE)
        \cup StringRule("firstName", body.firstName, 1, 100, TRUE, FALSE)
        \cup StringRule("lastName", body.lastName, 1, 100, TRUE, FALSE)
        \cup EmailRule("email", body.email)
        \cup StringRule("phone", body.phone, 0, 50, FALSE, TRUE)
        \cup StringRule("message", body.message, 0, 2000, FALSE, TRUE)
        \cup ConsentRule("consent", body.consent)
        \cup StringRule("source", body.source, 0, 120, FALSE, FALSE)
        \cup StringRule("pagePath", body.pagePath, 0, 512, FALSE, TRUE),
     value |->
        [orgType |-> body.orgType, orgTypeOther |-> body.orgTypeOther,
         orgName |-> body.orgName,
         firstName |-> body.firstName, lastName |-> body.lastName,
         email |-> body.email, phone |-> body.phone, message |-> body.message,
         consent |-> body.consent,
         source |-> Default(body.source, Str(PartnersPage)),
         pagePath |-> body.pagePath]]

isPartnerByOrgTypeOnly(body) == body.orgType.t # "undef"

(* "orgType" in req.body || req.body?.source === "partners-page" *)
isPartner(body) ==
    body.orgType.t # "undef" \/ (body.source.t = "str" /\ body.source.v = PartnersPage)

validate(body) == IF isPartner(body) THEN partnerSchema(body) ELSE parentSchema(body)

(* x ?? null *)
OrNull(x) == IF x.t = "undef" THEN Null ELSE x

(* `${firstName} ${lastName}`.trim() *)
fullName(v) == Trim(v.firstName.v \o <<" ">> \o v.lastName.v)

-----------------------------------------------------------------------------
(* The store.  The API writes five tables; the two reference tables are      *)
(* seeded out of band and only read.  Identifiers are generated by the       *)
(* store; created_at and updated_at take the store's now() when a row is     *)
(* inserted.                                                                 *)

AgeRow(code, active, sort) ==
    [id |-> <<"ag", code>>, code |-> code, active |-> active, sort_order |-> sort]

OrgRow(code, active) == [id |-> <<"org", code>>, code |-> code, active |-> active]

EmptyTables ==
    [inquiries |-> {}, inquiry_parent |-> {}, inquiry_age_groups |-> {},
     inquiry_partner |-> {}, newsletter_subscriptions |-> {}]

(* INSERT INTO newsletter_subscriptions ... ON CONFLICT (email) DO UPDATE     *)
(*   SET first_name, last_name, status = 'subscribed', updated_at = now()     *)
UpsertNewsletterPlainInsert(tbl, row) ==
    tbl \cup {row}

UpsertNewsletter(tbl, row) ==
    IF \E r \in tbl : r.email = row.email
    THEN {IF r.email = row.email
          THEN [r EXCEPT !.first_name = row.first_name,
                         !.last_name = row.last_name,
                         !.status = "subscribed",
                         !.updated_at = row.updated_at]
          ELSE r : r \in tbl}
    ELSE tbl \cup {row}

RECURSIVE UpsertAll(_, _)
UpsertAll(tbl, rows) ==
    IF rows = {} THEN tbl
    ELSE LET r == CHOOSE x \in rows : TRUE
         IN  UpsertAll(UpsertNewsletter(tbl, r), rows \ {r})

ApplyWritesDroppingJoins(d, w) ==
    [inquiries |-> d.inquiries \cup w.inquiries,
     inquiry_parent |-> d.inquiry_parent \cup w.inquiry_parent,
     inquiry_age_groups |-> d.inquiry_age_groups,
     inquiry_partner |-> d.inquiry_partner \cup w.inquiry_partner,
     newsletter_subscriptions |->
         UpsertAll(d.newsletter_subscriptions, w.newsletter_subscriptions)]

(* The writes w of one transaction (or of one statement) reaching the tables. *)
(* inquiry_age_groups: ON CONFLICT DO NOTHING, a row already there stays.     *)
ApplyWrites(d, w) ==
    [inquiries |-> d.inquiries \cup w.inquiries,
     inquiry_parent |-> d.inquiry_parent \cup w.inquiry_parent,
     inquiry_age_groups |-> d.inquiry_age_groups \cup w.inquiry_age_groups,
     inquiry_partner |-> d.inquiry_partner \cup w.inquiry_partner,
     newsletter_subscriptions |->
         UpsertAll(d.newsletter_subscriptions, w.newsletter_subscriptions)]

(* The client a statement of the transaction callback is issued on: every     *)
(* statement uses tx, the transaction's client, and none the pool's prisma.   *)
StmtClientInsertOnPool(stmt) == IF stmt = "insert_inquiry" THEN "prisma" ELSE "tx"

StmtClient(stmt) == "tx"

NoReq ==
    [kind |-> "none", body |-> Undef, value |-> Undef, now |-> 0, inquiryId |-> 0,
     agRows |-> <<>>, org |-> <<>>, failedAt |-> "none"]

NoResp == [status |-> 0, id |-> 0, errors |-> {}, body |-> Undef, sub |-> NoReq]

TxPcs == {"insert", "lookup", "detail", "joins", "newsletter", "commit"}

(* SELECT id, code FROM age_groups WHERE code IN (codes) AND active ORDER BY  *)
(* sort_order: every ordering of the matching rows that respects sort_order.  *)
SelectedAgeRowsAnyActivity(codes) ==
    {r \in age_groups : \E i \in 1..Len(codes) : codes[i] = r.code}

SelectedAgeRows(codes) ==
    {r \in age_groups : r.active /\ \E i \in 1..Len(codes) : codes[i] = r.code}

IsOrderedAnyhow(s) == TRUE

IsOrderedBySort(s) == \A i, j \in 1..Len(s) : i < j => s[i].sort_order <= s[j].sort_order

OrderedAgeRows(codes) ==
    LET rows == SelectedAgeRows(codes)
        n == Cardinality(rows)
    IN  {s \in [1..n -> rows] :
            /\ \A i, j \in 1..n : i # j => s[i] # s[j]
            /\ IsOrderedBySort(s)}

(* SELECT id FROM organization_types WHERE code = orgType AND active LIMIT 1  *)
SelectOrgType(code) ==
    LET rows == {r \in organization_types : r.active /\ r.code = code}
    IN  IF rows = {} THEN {<<>>} ELSE {<<r>> : r \in rows}

-----------------------------------------------------------------------------
(* Notification channels.  Each helper is an async function: it returns at   *)
(* once when its settings are missing and otherwise starts one outbound call *)
(* whose failure it catches and logs.                                        *)

CallAwaited(id, fn, purpose) ==
    [id |-> id, fn |-> fn, purpose |-> purpose, state |-> "done"]

Call(id, fn, purpose) == [id |-> id, fn |-> fn, purpose |-> purpose, state |-> "inflight"]

(* notify(text): if (!url || !gfetch) return *)
notify(id) ==
    IF env.SLACK_WEBHOOK_URL /\ env.gfetch THEN {Call(id, "notify", "summary")} ELSE {}

(* sendSMTPEmail({to, ...}): if (!host || !user || !pass) return *)
sendSMTPEmail(id, purpose) ==
    IF env.SMTP_HOST /\ env.SMTP_USER /\ env.SMTP_PASS
    THEN {Call(id, "sendSMTPEmail", purpose)} ELSE {}

(* sendEmail(subject, text, html, toOverride, ...):                           *)
(*   if (!key || !from || (!to && !toOverride) || !gfetch) return             *)
sendEmail(id, purpose, toOverride) ==
    IF env.RESEND_API_KEY /\ env.RESEND_FROM /\ (env.RESEND_TO \/ toOverride) /\ env.gfetch
    THEN {Call(id, "sendEmail", purpose)} ELSE {}

(* The calls started after a commit: the chat message, then SMTP when host,   *)
(* user and password are set (the internal summary only with recipients in    *)
(* SMTP_TO), else the HTTP provider for the summary and the receipt.          *)
Dispatch(id) ==
    notify(id)
    \cup (IF env.SMTP_HOST /\ env.SMTP_USER /\ env.SMTP_PASS
          THEN (IF env.SMTP_TO THEN sendSMTPEmail(id, "internal") ELSE {})
               \cup sendSMTPEmail(id, "receipt")
          ELSE sendEmail(id, "internal", FALSE) \cup sendEmail(id, "receipt", TRUE))

Outcomes == {"ok", "not_ok", "throws"}

(* What a helper does with the outcome of its call: the try/catch logs an     *)
(* exception, sendEmail also logs a response that is not ok.                  *)
SettleUncaught(fn, outcome) ==
    CASE outcome = "throws" -> "rejected"
      [] outcome = "not_ok" /\ fn = "sendEmail" -> "logged"
      [] OTHER -> "done"

Settle(fn, outcome) ==
    CASE outcome = "throws" -> "logged"
      [] outcome = "not_ok" /\ fn = "sendEmail" -> "logged"
      [] OTHER -> "done"

-----------------------------------------------------------------------------
(* router.post("/") *)

W(table, rows) == [EmptyTables EXCEPT ![table] = rows]

Merge(t, w) ==
    [inquiries |-> t.inquiries \cup w.inquiries,
     inquiry_parent |-> t.inquiry_parent \cup w.inquiry_parent,
     inquiry_age_groups |-> t.inquiry_age_groups \cup w.inquiry_age_groups,
     inquiry_partner |-> t.inquiry_partner \cup w.inquiry_partner,
     newsletter_subscriptions |->
         t.newsletter_subscriptions \cup w.newsletter_subscriptions]

(* One statement of the callback: buffered in the transaction when issued on  *)
(* tx, written at once when issued on the pool.                               *)
Exec(h, stmt, w) ==
    IF StmtClient(stmt) = "tx"
    THEN /\ tx' = [tx EXCEPT ![h] = Merge(tx[h], w)]
         /\ UNCHANGED <<db, hist>>
    ELSE /\ db' = ApplyWrites(db, w)
         /\ hist' = IF w.newsletter_subscriptions # {}
                    THEN [hist EXCEPT !.nlApplied = @ \cup {req[h].inquiryId}]
                    ELSE hist
         /\ UNCHANGED tx

InquiryRow(id, kind, v, optIn, now) ==
    [id |-> id, kind |-> kind,
     first_name |-> v.firstName.v, last_name |-> v.lastName.v,
     full_name |-> fullName(v), email |-> v.email.v,
     phone |-> OrNull(v.phone), message |-> OrNull(v.message),
     newsletter_opt_in |-> optIn, consent |-> TRUE, consent_at |-> now,
     source |-> v.source.v, page_path |-> OrNull(v.pagePath),
     status |-> "new", spam_flag |-> FALSE,
     created_at |-> now, updated_at |-> now]

(* Lines 142-160 and 294-301: classify, validate, answer 400 or go on to the  *)
(* transaction of the payload's kind.                                         *)
Receive(h, body, max) ==
    /\ pc[h] = "idle"
    /\ LET r == validate(body)
       IN  IF r.error # {}
           THEN /\ resp' = [resp EXCEPT ![h] =
                               [NoResp EXCEPT !.status = 400, !.errors = r.error,
                                              !.body = body]]
                /\ UNCHANGED <<pc, req, clock, hist>>
           ELSE /\ hist.accepted < max
                /\ hist' = [hist EXCEPT !.accepted = @ + 1]
                /\ clock' = clock + 1
                /\ pc' = [pc EXCEPT ![h] = "insert"]
                /\ req' = [req EXCEPT ![h] =
                              [NoReq EXCEPT
                                  !.kind = IF isPartner(body) THEN "partner" ELSE "parent",
                                  !.body = body,
                                  !.value = r.value,
                                  !.now = clock + 1]]
                /\ resp' = [resp EXCEPT ![h] = NoResp]
    /\ UNCHANGED <<age_groups, organization_types, env, db, tx, nlLock, calls,
                   adminResp, nextId>>

(* The transaction throws (a statement fails, the callback throws, the commit *)
(* fails): its writes are rolled back and the catch answers 500.              *)
Rollback(h, at) ==
    /\ tx' = [tx EXCEPT ![h] = EmptyTables]
    /\ nlLock' = {l \in nlLock : l[2] # h}
    /\ pc' = [pc EXCEPT ![h] = "idle"]
    /\ resp' = [resp EXCEPT ![h] =
                   [NoResp EXCEPT !.status = 500, !.body = req[h].body,
                                  !.sub = [req[h] EXCEPT !.failedAt = at]]]
    /\ req' = [req EXCEPT ![h] = NoReq]

TxFail(h) ==
    /\ pc[h] \in TxPcs
    /\ Rollback(h, pc[h])
    /\ UNCHANGED <<age_groups, organization_types, env, db, calls, adminResp,
                   nextId, clock, hist>>

(* Lines 163-172 *)
InsertParentInquiry(h) ==
    /\ pc[h] = "insert" /\ req[h].kind = "parent"
    /\ Exec(h, "insert_inquiry",
            W("inquiries", {InquiryRow(nextId, "parent", req[h].value,
                                       req[h].value.newsletterOptIn.v, req[h].now)}))
    /\ req' = [req EXCEPT ![h].inquiryId = nextId]
    /\ nextId' = nextId + 1
    /\ pc' = [pc EXCEPT ![h] = "lookup"]
    /\ UNCHANGED <<age_groups, organization_types, env, nlLock, resp, calls,
                   adminResp, clock>>

(* Lines 174-179 *)
LookupAgeGroups(h) ==
    /\ pc[h] = "lookup" /\ req[h].kind = "parent"
    /\ \E agRows \in OrderedAgeRows(req[h].value.ageGroups.v) :
          IF Len(agRows) = 0
          THEN Rollback(h, "no_age_group")
          ELSE /\ req' = [req EXCEPT ![h].agRows = agRows]
               /\ pc' = [pc EXCEPT ![h] = "detail"]
               /\ UNCHANGED <<tx, nlLock, resp>>
    /\ UNCHANGED <<age_groups, organization_types, env, db, calls, adminResp,
                   nextId, clock, hist>>

(* Lines 179-183 *)
primaryAgeGroupId(agRows) == agRows[1].id

InsertInquiryParent(h) ==
    /\ pc[h] = "detail" /\ req[h].kind = "parent"
    /\ Exec(h, "insert_parent",
            W("inquiry_parent",
              {[inquiry_id |-> req[h].inquiryId,
                number_of_kids |-> req[h].value.numberOfKids.v,
                primary_age_group_id |-> primaryAgeGroupId(req[h].agRows)]}))
    /\ pc' = [pc EXCEPT ![h] = "joins"]
    /\ UNCHANGED <<age_groups, organization_types, env, nlLock, req, resp, calls,
                   adminResp, nextId, clock>>

(* Lines 185-192: one insert per resolved row, then the opt-in test *)
InsertAgeGroups(h) ==
    /\ pc[h] = "joins" /\ req[h].kind = "parent"
    /\ Exec(h, "insert_age_groups",
            W("inquiry_age_groups",
              {[inquiry_id |-> req[h].inquiryId, age_group_id |-> req[h].agRows[i].id] :
                  i \in 1..Len(req[h].agRows)}))
    /\ pc' = [pc EXCEPT ![h] =
                 IF req[h].value.newsletterOptIn.v THEN "newsletter" ELSE "commit"]
    /\ UNCHANGED <<age_groups, organization_types, env, nlLock, req, resp, calls,
                   adminResp, nextId, clock>>

(* Lines 192-203: the upsert waits while another open transaction holds the   *)
(* row of this email, and holds it until its own transaction ends.            *)
NewsletterUpsert(h) ==
    /\ pc[h] = "newsletter" /\ req[h].kind = "parent"
    /\ LET v == req[h].value
       IN  /\ \A l \in nlLock : l[1] = v.email.v => l[2] = h
           /\ nlLock' = nlLock \cup {<<v.email.v, h>>}
           /\ Exec(h, "upsert_newsletter",
                   W("newsletter_subscriptions",
                     {[email |-> v.email.v, first_name |-> v.firstName.v,
                       last_name |-> v.lastName.v, status |-> "subscribed",
                       double_opt_in |-> FALSE, source |-> v.source.v,
                       subscribed_at |-> req[h].now, updated_at |-> req[h].now]}))
    /\ pc' = [pc EXCEPT ![h] = "commit"]
    /\ UNCHANGED <<age_groups, organization_types, env, req, resp, calls,
                   adminResp, nextId, clock>>

(* prisma.$transaction resolves: the writes of the callback are committed    *)
(* together and the row lock is released.                                     *)
Commit(h) ==
    /\ pc[h] = "commit"
    /\ db' = ApplyWrites(db, tx[h])
    /\ tx' = [tx EXCEPT ![h] = EmptyTables]
    /\ nlLock' = {l \in nlLock : l[2] # h}
    /\ hist' =
          [accepted |-> hist.accepted,
           committed |-> hist.committed \cup {req[h].inquiryId},
           nlApplied |-> IF tx[h].newsletter_subscriptions # {}
                         THEN hist.nlApplied \cup {req[h].inquiryId}
                         ELSE hist.nlApplied,
           lastOptIn |-> IF req[h].kind = "parent" /\ req[h].value.newsletterOptIn.v
                         THEN {e \in hist.lastOptIn : e.email # req[h].value.email.v}
                              \cup {[email |-> req[h].value.email.v,
                                     first_name |-> req[h].value.firstName.v,
                                     last_name |-> req[h].value.lastName.v]}
                         ELSE hist.lastOptIn]
    /\ pc' = [pc EXCEPT ![h] = "committed"]
    /\ UNCHANGED <<age_groups, organization_types, env, req, resp, calls,
                   adminResp, nextId, clock>>

(* Lines 208-293: start the notification calls, none awaited, and answer 201 *)
ParentCreated(h) ==
    /\ pc[h] = "committed" /\ req[h].kind = "parent"
    /\ calls' = calls \cup Dispatch(req[h].inquiryId)
    /\ resp' = [resp EXCEPT ![h] =
                   [NoResp EXCEPT !.status = 201, !.id = req[h].inquiryId,
                                  !.body = req[h].body, !.sub = req[h]]]
    /\ pc' = [pc EXCEPT ![h] = "idle"]
    /\ req' = [req EXCEPT ![h] = NoReq]
    /\ UNCHANGED <<age_groups, organization_types, env, db, tx, nlLock,
                   adminResp, nextId, clock, hist>>

(* Lines 304-313 *)
InsertPartnerInquiry(h) ==
    /\ pc[h] = "insert" /\ req[h].kind = "partner"
    /\ Exec(h, "insert_inquiry",
            W("inquiries", {InquiryRow(nextId, "partner", req[h].value, FALSE,
                                       req[h].now)}))
    /\ req' = [req EXCEPT ![h].inquiryId = nextId]
    /\ nextId' = nextId + 1
    /\ pc' = [pc EXCEPT ![h] = "lookup"]
    /\ UNCHANGED <<age_groups, organization_types, env, nlLock, resp, calls,
                   adminResp, clock>>

(* Lines 315-317 *)
LookupOrgType(h) ==
    /\ pc[h] = "lookup" /\ req[h].kind = "partner"
    /\ \E org \in SelectOrgType(req[h].value.orgType.v) :
          IF Len(org) = 0
          THEN Rollback(h, "no_org_type")
          ELSE /\ req' = [req EXCEPT ![h].org = org]
               /\ pc' = [pc EXCEPT ![h] = "detail"]
               /\ UNCHANGED <<tx, nlLock, resp>>
    /\ UNCHANGED <<age_groups, organization_types, env, db, calls, adminResp,
                   nextId, clock, hist>>

(* orgType === 'other' ? orgTypeOther : null *)
orgTypeOtherKeepsLabel(v) == OrNull(v.orgTypeOther)

orgTypeOtherColumn(v) == IF v.orgType.v = "other" THEN OrNull(v.orgTypeOther) ELSE Null

(* Lines 319-321 *)
InsertInquiryPartner(h) ==
    /\ pc[h] = "detail" /\ req[h].kind = "partner"
    /\ Exec(h, "insert_partner",
            W("inquiry_partner",
              {[inquiry_id |-> req[h].inquiryId,
                org_type_id |-> req[h].org[1].id,
                org_type_other |-> orgTypeOtherColumn(req[h].value),
                org_name |-> req[h].value.orgName.v]}))
    /\ pc' = [pc EXCEPT ![h] = "commit"]
    /\ UNCHANGED <<age_groups, organization_types, env, nlLock, req, resp, calls,
                   adminResp, nextId, clock>>

(* Lines 326-381 *)
PartnerCreated(h) ==
    /\ pc[h] = "committed" /\ req[h].kind = "partner"
    /\ calls' = calls \cup Dispatch(req[h].inquiryId)
    /\ resp' = [resp EXCEPT ![h] =
                   [NoResp EXCEPT !.status = 201, !.id = req[h].inquiryId,
                                  !.body = req[h].body, !.sub = req[h]]]
    /\ pc' = [pc EXCEPT ![h] = "idle"]
    /\ req' = [req EXCEPT ![h] = NoReq]
    /\ UNCHANGED <<age_groups, organization_types, env, db, tx, nlLock,
                   adminResp, nextId, clock, hist>>

(* A detached call ends with some outcome; its helper handles it. *)
SettleCall(c, outcome) ==
    /\ c \in calls /\ c.state = "inflight"
    /\ calls' = (calls \ {c}) \cup {[c EXCEPT !.state = Settle(c.fn, outcome)]}
    /\ UNCHANGED <<age_groups, organization_types, env, db, tx, nlLock, pc, req,
                   resp, adminResp, nextId, clock, hist>>

-----------------------------------------------------------------------------
(* The admin routes *)

(* req.header("x-admin-token") !== process.env.ADMIN_TOKEN *)
unauthorized(header) == header # env.ADMIN_TOKEN

(* text ILIKE pattern: % is any run of characters, _ any one character, a    *)
(* backslash takes the next character literally; letters compare without     *)
(* case.                                                                     *)
RECURSIVE Like(_, _)
Like(p, s) ==
    IF p = <<>> THEN s = <<>>
    ELSE IF Head(p) = "%"
         THEN Like(Tail(p), s) \/ (s # <<>> /\ Like(p, Tail(s)))
    ELSE IF s = <<>> THEN FALSE
    ELSE IF Head(p) = "_" THEN Like(Tail(p), Tail(s))
    ELSE IF Head(p) = "\\" /\ Len(p) >= 2
         THEN p[2] = Head(s) /\ Like(Tail(Tail(p)), Tail(s))
    ELSE Head(p) = Head(s) /\ Like(Tail(p), Tail(s))

ILike(s, p) == Like(LowerText(p), LowerText(s))

(* The WHERE clause of the listing; status and q are the truthy query values *)
(* or Undef.                                                                 *)
ListWhere(r, status, q) ==
    /\ status.t = "undef" \/ r.status = status.v
    /\ \/ q.t = "undef"
       \/ ILike(r.full_name, <<"%">> \o q.v \o <<"%">>)
       \/ ILike(r.email, <<"%">> \o q.v \o <<"%">>)

PageLimit == 200

(* ORDER BY created_at DESC LIMIT 200: every ordering of the rows that puts  *)
(* later created_at first, cut at the limit.                                 *)
ListOrderings(rows) ==
    LET n == Cardinality(rows)
    IN  {SubSeq(s, 1, IF n < PageLimit THEN n ELSE PageLimit) :
            s \in {t \in [1..n -> rows] :
                      /\ \A i, j \in 1..n : i # j => t[i] # t[j]
                      /\ \A i, j \in 1..n :
                            i < j => t[i].created_at >= t[j].created_at}}

NoAdminResp ==
    [route |-> "none", status |-> 0, error |-> "", data |-> <<>>,
     header |-> Undef, id |-> 0, arg |-> Undef, q |-> Undef,
     method |-> "", path |-> <<>>]

(* router.get("/admin"), lines 403-425 *)
AdminList(header, status, q) ==
    /\ LET base == [NoAdminResp EXCEPT !.route = "list", !.header = header,
                                       !.arg = status, !.q = q]
       IN  IF unauthorized(header)
           THEN adminResp' = [base EXCEPT !.status = 401, !.error = "unauthorized"]
           ELSE LET st == IF TruthyCode(status) THEN status ELSE Undef
                    qq == IF TruthyText(q) THEN q ELSE Undef
                IN  \E data \in ListOrderings({r \in db.inquiries : ListWhere(r, st, qq)}) :
                        adminResp' = [base EXCEPT !.status = 200, !.data = data]
    /\ UNCHANGED <<age_groups, organization_types, env, db, tx, nlLock, pc, req,
                   resp, calls, nextId, clock, hist>>

AllowedStatuses == {"new", "read", "archived"}

(* A path parameter: 0 stands for text that is no uuid, k > 0 for the uuid of *)
(* the k-th identifier the store generates.                                  *)
IsUuid(id) == id > 0

UpdateStatusForwardOnly(rows, id, status, now) ==
    {IF r.id = id /\ r.status # "archived"
     THEN [r EXCEPT !.status = status, !.updated_at = now] ELSE r : r \in rows}

UpdateStatusKeepsTime(rows, id, status, now) ==
    {IF r.id = id THEN [r EXCEPT !.status = status] ELSE r : r \in rows}

(* UPDATE inquiries SET status = .., updated_at = now() WHERE id = CAST(..)  *)
UpdateStatus(rows, id, status, now) ==
    {IF r.id = id THEN [r EXCEPT !.status = status, !.updated_at = now] ELSE r :
        r \in rows}

AdminSetStatusUpdatesFirst(header, id, status) ==
    /\ unauthorized(header) /\ IsUuid(id)
    /\ clock - hist.accepted < MaxUpdates
    /\ clock' = clock + 1
    /\ db' = [db EXCEPT !.inquiries = UpdateStatus(@, id, "read", clock + 1)]
    /\ adminResp' = [NoAdminResp EXCEPT !.route = "patch", !.header = header, !.id = id,
                                        !.arg = status, !.status = 401,
                                        !.error = "unauthorized"]
    /\ UNCHANGED <<age_groups, organization_types, env, tx, nlLock, pc, req,
                   resp, calls, nextId, hist>>

(* router.patch("/admin/:id/status"), lines 428-442.  The cast of a parameter *)
(* that is no uuid fails in the store: the handler's promise rejects and no   *)
(* response is written.                                                       *)
AdminSetStatus(header, id, status) ==
    /\ LET base == [NoAdminResp EXCEPT !.route = "patch", !.header = header,
                                       !.id = id, !.arg = status]
           st == IF TruthyCode(status) THEN status ELSE Str("")
       IN  IF unauthorized(header)
           THEN /\ adminResp' = [base EXCEPT !.status = 401, !.error = "unauthorized"]
                /\ UNCHANGED <<db, clock>>
           ELSE IF ~(st.t = "str" /\ st.v \in AllowedStatuses)
           THEN /\ adminResp' = [base EXCEPT !.status = 400, !.error = "invalid_status"]
                /\ UNCHANGED <<db, clock>>
           ELSE IF ~IsUuid(id)
           THEN /\ adminResp' = [base EXCEPT !.error = "unhandled_rejection"]
                /\ UNCHANGED <<db, clock>>
           ELSE /\ clock - hist.accepted < MaxUpdates
                /\ clock' = clock + 1
                /\ db' = [db EXCEPT !.inquiries = UpdateStatus(@, id, st.v, clock + 1)]
                /\ adminResp' = [base EXCEPT !.status = 200]
    /\ UNCHANGED <<age_groups, organization_types, env, tx, nlLock, pc, req,
                   resp, calls, nextId, hist>>

-----------------------------------------------------------------------------
(* server.ts: the application's routing.  A path is the sequence of its      *)
(* segments.                                                                 *)

StartsWith(path, prefix) ==
    Len(path) >= Len(prefix) /\ SubSeq(path, 1, Len(prefix)) = prefix

(* The uuid a path segment spells: the k-th identifier of the store, or 0    *)
(* when the segment is no uuid.                                              *)
UuidSegments == <<"u1", "u2", "u3">>

IdOf(seg) ==
    IF \E k \in 1..Len(UuidSegments) : UuidSegments[k] = seg
    THEN CHOOSE k \in 1..Len(UuidSegments) : UuidSegments[k] = seg
    ELSE 0

(* The routes of the inquiries router, tried on the path left after the      *)
(* mount point: POST "/", GET "/admin", PATCH "/admin/:id/status".           *)
RouterMatch(method, rest) ==
    IF method = "POST" /\ rest = <<>> THEN [handler |-> "post", id |-> ""]
    ELSE IF method = "GET" /\ rest = <<"admin">> THEN [handler |-> "list", id |-> ""]
    ELSE IF method = "PATCH" /\ Len(rest) = 3 /\ rest[1] = "admin" /\ rest[3] = "status"
    THEN [handler |-> "patch", id |-> rest[2]]
    ELSE [handler |-> "next", id |-> ""]

(* app.use("/api/inquiries", inquiries); app.use("/api/admin/inquiries", ..) *)
Mounts == <<(<<"api", "inquiries">>), (<<"api", "admin", "inquiries">>)>>

RECURSIVE ThroughMounts(_, _, _)
ThroughMounts(k, method, path) ==
    IF k > Len(Mounts) THEN [handler |-> "next", id |-> ""]
    ELSE LET m == IF StartsWith(path, Mounts[k])
                  THEN RouterMatch(method, SubSeq(path, Len(Mounts[k]) + 1, Len(path)))
                  ELSE [handler |-> "next", id |-> ""]
         IN  IF m.handler # "next" THEN m ELSE ThroughMounts(k + 1, method, path)

(* The application's stack in order: the health route, the two mounts, the   *)
(* 404 of /api, and the framework's own 404.                                 *)
Resolve(method, path) ==
    IF method = "GET" /\ path = <<"api", "health">> THEN [handler |-> "health", id |-> ""]
    ELSE LET m == ThroughMounts(1, method, path)
         IN  IF m.handler # "next" THEN m
             ELSE IF StartsWith(path, <<"api">>) THEN [handler |-> "not_found", id |-> ""]
             ELSE [handler |-> "default", id |-> ""]

(* One GET or PATCH request through the application. *)
Serve(method, path, header, arg) ==
    LET m == Resolve(method, path)
        base == [NoAdminResp EXCEPT !.route = m.handler, !.method = method,
                                    !.path = path, !.header = header, !.arg = arg]
        frame == UNCHANGED <<age_groups, organization_types, env, db, tx, nlLock, pc,
                             req, resp, calls, nextId, clock, hist>>
    IN  CASE m.handler = "list" -> AdminList(header, arg, Undef)
          [] m.handler = "patch" -> AdminSetStatus(header, IdOf(m.id), arg)
          [] m.handler = "health" -> adminResp' = [base EXCEPT !.status = 200] /\ frame
          [] m.handler = "not_found" ->
                adminResp' = [base EXCEPT !.status = 404, !.error = "not_found"] /\ frame
          [] OTHER -> adminResp' = [base EXCEPT !.status = 404] /\ frame

-----------------------------------------------------------------------------
(* Request bodies, reference data and settings the specifications draw from *)

Ann == <<"A", "n", "n">>
Bob == <<"B", "o", "b">>
Lee == <<"L", "e", "e">>
MailA == <<"a", "@", "x", ".", "i", "o">>
MailB == <<"b", "l", "@", "x", ".", "i", "o">>
Club == <<"C", "l", "u", "b">>
Acme == <<"A", "c", "m", "e">>

EmptyBody ==
    [firstName |-> Undef, lastName |-> Undef, email |-> Undef, phone |-> Undef,
     numberOfKids |-> Undef, ageGroups |-> Undef, message |-> Undef,
     newsletterOptIn |-> Undef, consent |-> Undef, source |-> Undef,
     pagePath |-> Undef, orgType |-> Undef, orgTypeOther |-> Undef,
     orgName |-> Undef]

ParentBody(first, last, email, ages, optIn) ==
    [EmptyBody EXCEPT !.firstName = Str(first), !.lastName = Str(last),
                      !.email = Str(email), !.ageGroups = Arr(ages),
                      !.newsletterOptIn = optIn, !.consent = Bool(TRUE)]

PartnerBody(first, last, email, orgType, orgTypeOther) ==
    [EmptyBody EXCEPT !.firstName = Str(first), !.lastName = Str(last),
                      !.email = Str(email), !.orgType = orgType,
                      !.orgTypeOther = orgTypeOther, !.orgName = Str(Acme),
                      !.consent = Bool(TRUE)]

AgeGroupsSeeded ==
    {AgeRow("6-9", TRUE, 1), AgeRow("9-13", TRUE, 2), AgeRow("13-16", TRUE, 3),
     AgeRow("16+", TRUE, 4)}

OrgTypesSeeded == {OrgRow(c, TRUE) : c \in OrgTypeCodes}

EnvNoChannel ==
    [SLACK_WEBHOOK_URL |-> FALSE, SMTP_HOST |-> FALSE, SMTP_USER |-> FALSE,
     SMTP_PASS |-> FALSE, SMTP_TO |-> FALSE, RESEND_API_KEY |-> FALSE,
     RESEND_FROM |-> FALSE, RESEND_TO |-> FALSE, gfetch |-> TRUE,
     ADMIN_TOKEN |-> Str("s3cret")]

InitWith(ageCfgs, orgCfgs, envCfgs) ==
    /\ age_groups \in ageCfgs
    /\ organization_types \in orgCfgs
    /\ env \in envCfgs
    /\ db = EmptyTables
    /\ tx = [h \in Handlers |-> EmptyTables]
    /\ nlLock = {}
    /\ pc = [h \in Handlers |-> "idle"]
    /\ req = [h \in Handlers |-> NoReq]
    /\ resp = [h \in Handlers |-> NoResp]
    /\ calls = {}
    /\ adminResp = NoAdminResp
    /\ nextId = 1
    /\ clock = 0
    /\ hist = [accepted |-> 0, committed |-> {}, nlApplied |-> {}, lastOptIn |-> {}]

(* The steps of router.post("/") after the payload was accepted *)
ParentStep(h) ==
    \/ InsertParentInquiry(h)
    \/ LookupAgeGroups(h)
    \/ InsertInquiryParent(h)
    \/ InsertAgeGroups(h)
    \/ NewsletterUpsert(h)
    \/ ParentCreated(h)

PartnerStep(h) ==
    \/ InsertPartnerInquiry(h)
    \/ LookupOrgType(h)
    \/ InsertInquiryPartner(h)
    \/ PartnerCreated(h)

TxStep(h) ==
    \/ Commit(h)
    \/ TxFail(h)

PostStep(h) == ParentStep(h) \/ PartnerStep(h) \/ TxStep(h)

(* Concurrent submissions: two handlers, opted-in parents sharing an email,  *)
(* a parent without opt-in, a partner, and a body that fails validation.     *)
Bodies ==
    {ParentBody(Ann, Lee, MailA, <<"9-13", "6-9">>, Bool(TRUE)),
     ParentBody(Bob, Lee, MailA, <<"6-9">>, Bool(TRUE)),
     PartnerBody(Ann, Lee, MailB, Str("other"), Str(Club)),
     [ParentBody(Ann, Lee, MailA, <<"6-9">>, Undef) EXCEPT !.consent = Bool(FALSE)]}

Init == InitWith({AgeGroupsSeeded}, {OrgTypesSeeded}, {EnvNoChannel})

Next ==
    \E h \in Handlers :
        \/ \E body \in Bodies : Receive(h, body, MaxSubmissions)
        \/ PostStep(h)

Spec == Init /\ [][Next]_vars

-----------------------------------------------------------------------------
(* Parent submissions against reference data in which codes are inactive,    *)
(* missing, ordered otherwise than the codes, or tied in sort order.         *)

AgeGroupsPartial ==
    {AgeRow("6-9", TRUE, 1), AgeRow("9-13", FALSE, 2), AgeRow("13-16", TRUE, 3)}

AgeGroupsReordered ==
    {AgeRow("6-9", TRUE, 2), AgeRow("9-13", TRUE, 1), AgeRow("13-16", TRUE, 3),
     AgeRow("16+", TRUE, 3)}

ParentBodies ==
    {ParentBody(Ann, Lee, MailA, <<"9-13", "6-9">>, Bool(TRUE)),
     ParentBody(Ann, Lee, MailA, <<"9-13", "13-16", "9-13", "6-9">>, Undef),
     ParentBody(Bob, Lee, MailB, <<"9-13">>, Bool(FALSE)),
     ParentBody(Bob, Lee, MailB, <<"16+", "13-16">>, Undef),
     [ParentBody(Bob, Lee, MailB, <<"6-9", "16+">>, Undef)
         EXCEPT !.numberOfKids = Num(12)],
     [ParentBody(Bob, Lee, MailB, <<"6-9">>, Undef) EXCEPT !.numberOfKids = Num(13)],
     ParentBody(Bob, Lee, MailB, <<>>, Undef)}

InitParent ==
    InitWith({AgeGroupsSeeded, AgeGroupsPartial, AgeGroupsReordered},
             {OrgTypesSeeded}, {EnvNoChannel})

NextParent ==
    \/ \E body \in ParentBodies : Receive("h1", body, MaxSubmissions)
    \/ ParentStep("h1")
    \/ TxStep("h1")

SpecParent == InitParent /\ [][NextParent]_vars

-----------------------------------------------------------------------------
(* Partner submissions: every shape of orgTypeOther with the type "other"    *)
(* and with another type, against reference data with an inactive type.      *)

OrgTypesPartial == {OrgRow(c, c # "library") : c \in OrgTypeCodes \ {"government"}}

OtherLabels == {Undef, Null, Str(<<>>), Str(Club), Str(Rep("x", 200)), Str(Rep("x", 201))}

PartnerBodies ==
    {PartnerBody(Ann, Lee, MailA, Str(t), o) : t \in {"other", "school"}, o \in OtherLabels}
    \cup {PartnerBody(Bob, Lee, MailB, Str("library"), Undef),
          PartnerBody(Bob, Lee, MailB, Str("club"), Str(Club)),
          [PartnerBody(Bob, Lee, MailB, Undef, Str(Club))
              EXCEPT !.source = Str(PartnersPage)]}

InitPartner ==
    InitWith({AgeGroupsSeeded}, {OrgTypesSeeded, OrgTypesPartial}, {EnvNoChannel})

NextPartner ==
    \/ \E body \in PartnerBodies : Receive("h1", body, MaxSubmissions)
    \/ PartnerStep("h1")
    \/ TxStep("h1")

SpecPartner == InitPartner /\ [][NextPartner]_vars

-----------------------------------------------------------------------------
(* Notifications: one handler, a parent and a partner submission, under the  *)
(* settings of the channels.  SMTP and the HTTP provider are each unset, set *)
(* in part (host without credentials, key without sender) or set in full.    *)

Parts == {"unset", "part", "full"}

EnvWith(slack, smtp, smtpTo, resend, resendTo, fetch) ==
    [SLACK_WEBHOOK_URL |-> slack,
     SMTP_HOST |-> smtp # "unset", SMTP_USER |-> smtp = "full",
     SMTP_PASS |-> smtp = "full", SMTP_TO |-> smtpTo,
     RESEND_API_KEY |-> resend # "unset", RESEND_FROM |-> resend = "full",
     RESEND_TO |-> resendTo, gfetch |-> fetch,
     ADMIN_TOKEN |-> Str("s3cret")]

EnvChannels ==
    {EnvWith(slack, smtp, smtpTo, resend, resendTo, TRUE) :
        slack \in BOOLEAN, smtp \in Parts, smtpTo \in BOOLEAN,
        resend \in Parts, resendTo \in BOOLEAN}
    \cup {EnvWith(TRUE, smtp, TRUE, "full", TRUE, FALSE) : smtp \in {"unset", "full"}}

NotifyBodies ==
    {ParentBody(Ann, Lee, MailA, <<"6-9">>, Bool(TRUE)),
     PartnerBody(Bob, Lee, MailB, Str("school"), Undef)}

InitNotify == InitWith({AgeGroupsSeeded}, {OrgTypesSeeded}, EnvChannels)

NextNotify ==
    \/ \E body \in NotifyBodies : Receive("h1", body, MaxNotified)
    \/ PostStep("h1")
    \/ \E c \in calls, outcome \in Outcomes : SettleCall(c, outcome)

SpecNotify == InitNotify /\ [][NextNotify]_vars

-----------------------------------------------------------------------------
(* The admin routes over the inquiries of one handler whose transactions     *)
(* succeed.                                                                  *)

AdminBodies ==
    {ParentBody(Ann, Lee, MailA, <<"6-9">>, Bool(TRUE)),
     PartnerBody(Bob, Lee, MailB, Str("school"), Undef)}

Submit(h) ==
    \/ \E body \in AdminBodies : Receive(h, body, MaxSubmissions)
    \/ ParentStep(h)
    \/ PartnerStep(h)
    \/ Commit(h)

Token == Str("s3cret")

(* Status updates with the right token: every shape of the status, and the   *)
(* identifier of a row, of no row, or no uuid at all.                        *)
StatusArgs == {Undef, Str("new"), Str("read"), Str("archived"), Str("bogus")}

StatusBody == ParentBody(Ann, Lee, MailA, <<"6-9">>, Bool(TRUE))

NextStatus ==
    \/ Receive("h1", StatusBody, MaxSubmissions)
    \/ ParentStep("h1")
    \/ Commit("h1")
    \/ \E id \in 0..nextId, status \in StatusArgs : AdminSetStatus(Token, id, status)

SpecStatus == Init /\ [][NextStatus]_vars

(* Both routes with the admin token unset, set, or set to the empty string,  *)
(* and the header absent, right, wrong or empty.                             *)
EnvAdmin == {[EnvNoChannel EXCEPT !.ADMIN_TOKEN = t] : t \in {Undef, Token, Str("")}}

Headers == {Undef, Token, Str("wrong"), Str("")}

InitAuth == InitWith({AgeGroupsSeeded}, {OrgTypesSeeded}, EnvAdmin)

NextAuth ==
    \/ Submit("h1")
    \/ \E header \in Headers : AdminList(header, Undef, Undef)
    \/ \E header \in Headers, id \in 1..nextId : AdminSetStatus(header, id, Str("read"))

SpecAuth == InitAuth /\ [][NextAuth]_vars

(* The listing with the right token: status filters and text queries, among  *)
(* them queries holding the pattern characters of ILIKE.                     *)
Queries ==
    {Undef, Str(<<>>), Str(<<"l", "E", "e">>), Str(<<"A", "@">>), Str(<<"z">>), Str(<<"_">>),
     Str(<<"%">>)}

StatusFilters == {Undef, Str("new"), Str("read")}

NextListing ==
    \/ Submit("h1")
    \/ \E id \in 1..nextId : AdminSetStatus(Token, id, Str("read"))
    \/ \E status \in StatusFilters, q \in Queries : AdminList(Token, status, q)

SpecListing == Init /\ [][NextListing]_vars

(* Rejected requests next to accepted ones, with the chat webhook set:       *)
(* submissions that pass or fail validation, listings with the header absent, *)
(* right or wrong, and status updates with the header absent or wrong.        *)
EnvChat == EnvWith(TRUE, "unset", FALSE, "unset", FALSE, TRUE)

RejectedBodies ==
    {ParentBody(Ann, Lee, MailA, <<"6-9">>, Bool(TRUE)),
     PartnerBody(Bob, Lee, MailB, Str("school"), Undef),
     [ParentBody(Ann, Lee, MailA, <<"6-9">>, Bool(TRUE)) EXCEPT !.consent = Bool(FALSE)],
     PartnerBody(Bob, Lee, MailB, Str("other"), Undef),
     EmptyBody}

RejectedHeaders == {Undef, Token, Str("wrong")}

InitRejected == InitWith({AgeGroupsSeeded}, {OrgTypesSeeded}, {EnvChat})

NextRejected ==
    \/ \E body \in RejectedBodies : Receive("h1", body, MaxNotified)
    \/ PostStep("h1")
    \/ \E c \in calls : SettleCall(c, "ok")
    \/ \E header \in RejectedHeaders : AdminList(header, Undef, Undef)
    \/ \E header \in RejectedHeaders \ {Token}, id \in 1..nextId :
          AdminSetStatus(header, id, Str("read"))

SpecRejected == InitRejected /\ [][NextRejected]_vars

(* Classification: payloads of either kind with and without orgType, with   *)
(* the source absent, "website" or "partners-page".                           *)
ClassifyParent == ParentBody(Ann, Lee, MailA, <<"6-9">>, Bool(TRUE))

ClassifyPartner == PartnerBody(Bob, Lee, MailB, Str("school"), Undef)

ClassifyBodies ==
    {ClassifyParent,
     [ClassifyParent EXCEPT !.source = Str(Website)],
     [ClassifyParent EXCEPT !.source = Str(PartnersPage)],
     [ClassifyParent EXCEPT !.orgType = Null],
     [ClassifyParent EXCEPT !.orgType = Str("school"), !.orgName = Str(Acme)],
     ClassifyPartner,
     [ClassifyPartner EXCEPT !.source = Str(PartnersPage)],
     [ClassifyPartner EXCEPT !.source = Str(Website)],
     [ClassifyPartner EXCEPT !.orgType = Undef, !.source = Str(PartnersPage)]}

NextClassify ==
    \/ \E body \in ClassifyBodies : Receive("h1", body, MaxSubmissions)
    \/ PostStep("h1")

SpecClassify == Init /\ [][NextClassify]_vars

(* Requests by path: the admin paths under either mount, with and without  *)
(* the router's own "admin" segment, the health route and unknown paths.     *)
AdminMount == <<"api", "admin", "inquiries">>

Paths ==
    {AdminMount, AdminMount \o <<"admin">>, <<"api", "inquiries", "admin">>,
     AdminMount \o <<"u1", "status">>, AdminMount \o <<"admin", "u1", "status">>,
     <<"api", "inquiries", "admin", "u1", "status">>, AdminMount \o <<"admin", "x", "status">>,
     <<"api", "inquiries">>, <<"api", "health">>, <<"api", "other">>, <<"other">>}

NextRoutes ==
    \/ Receive("h1", StatusBody, MaxNotified)
    \/ ParentStep("h1")
    \/ Commit("h1")
    \/ \E method \in {"GET", "PATCH"}, path \in Paths, header \in {Undef, Token},
          arg \in {Str("read"), Str("bogus")} : Serve(method, path, header, arg)

SpecRoutes == Init /\ [][NextRoutes]_vars

(* Ownership: parent submissions with repeated and inactive codes and the   *)
(* largest number of kids, a partner submission, failures at any statement,   *)
(* and status updates of the stored rows.                                     *)
OwnedBodies ==
    {ParentBody(Ann, Lee, MailA, <<"9-13", "6-9", "9-13", "13-16">>, Bool(TRUE)),
     [ParentBody(Bob, Lee, MailB, <<"13-16">>, Undef) EXCEPT !.numberOfKids = Num(12)],
     PartnerBody(Bob, Lee, MailB, Str("other"), Str(Club))}

InitOwned == InitWith({AgeGroupsPartial}, {OrgTypesSeeded}, {EnvNoChannel})

NextOwned ==
    \/ \E body \in OwnedBodies : Receive("h1", body, MaxSubmissions)
    \/ PostStep("h1")
    \/ \E id \in 1..nextId : AdminSetStatus(Token, id, Str("archived"))

SpecOwned == InitOwned /\ [][NextOwned]_vars

-----------------------------------------------------------------------------
(* Properties *)

HasRows(id) ==
    \/ \E r \in db.inquiries : r.id = id
    \/ \E r \in db.inquiry_parent : r.inquiry_id = id
    \/ \E r \in db.inquiry_partner : r.inquiry_id = id
    \/ \E r \in db.inquiry_age_groups : r.inquiry_id = id
    \/ id \in hist.nlApplied

AllRows(r) ==
    /\ \E i \in db.inquiries : i.id = r.id /\ i.kind = r.sub.kind
    /\ r.sub.kind = "parent" =>
          /\ \E p \in db.inquiry_parent : p.inquiry_id = r.id
          /\ \A k \in 1..Len(r.sub.agRows) :
                [inquiry_id |-> r.id, age_group_id |-> r.sub.agRows[k].id]
                    \in db.inquiry_age_groups
          /\ Len(r.sub.agRows) >= 1
          /\ r.sub.value.newsletterOptIn.v =>
                /\ r.id \in hist.nlApplied
                /\ \E n \in db.newsletter_subscriptions : n.email = r.sub.value.email.v
    /\ r.sub.kind = "partner" =>
          \E p \in db.inquiry_partner : p.inquiry_id = r.id

(* C1: a submission is all-or-nothing.  While its transaction is open none of *)
(* its writes are in the tables; after a failure at any step the response is  *)
(* 500 and no row or newsletter write of the submission is persisted; after a *)
(* 201 the inquiry, its detail row, its join rows and its newsletter write    *)
(* are all persisted.                                                         *)
C1_AllOrNothing ==
    \A h \in Handlers :
        /\ pc[h] \in TxPcs => ~HasRows(req[h].inquiryId)
        /\ resp[h].status = 500 => ~HasRows(resp[h].sub.inquiryId)
        /\ resp[h].status = 201 =>
              /\ resp[h].id = resp[h].sub.inquiryId
              /\ resp[h].id \in hist.committed
              /\ AllRows(resp[h])
        /\ (pc[h] = "idle" /\ resp[h].sub.kind # "none") => resp[h].status \in {201, 500}

(* C1's case: one handler failed at the commit of an opted-in parent          *)
(* submission, after all its statements ran, while the other answered 201.    *)
C1_Witness ==
    \E h1, h2 \in Handlers :
        /\ resp[h1].status = 500
        /\ resp[h1].sub.failedAt = "commit"
        /\ resp[h1].sub.kind = "parent"
        /\ resp[h1].sub.value.newsletterOptIn.v
        /\ resp[h2].status = 201
        /\ resp[h2].sub.kind = "partner"

(* C4: the newsletter table holds one row per email that opted in, with       *)
(* status subscribed and the names of the opted-in submission committed last  *)
(* for that email.                                                            *)
C4_NewsletterConverges ==
    /\ \A r1, r2 \in db.newsletter_subscriptions : r1.email = r2.email => r1 = r2
    /\ \A r \in db.newsletter_subscriptions :
          /\ r.status = "subscribed"
          /\ \E e \in hist.lastOptIn : e.email = r.email
    /\ \A e \in hist.lastOptIn :
          \E r \in db.newsletter_subscriptions :
              /\ r.email = e.email
              /\ r.first_name = e.first_name
              /\ r.last_name = e.last_name

(* C4's case: two opted-in submissions of one email are committed and the     *)
(* second updated the row the first inserted.                                 *)
C4_Witness ==
    /\ Cardinality(hist.nlApplied) = 2
    /\ \E r \in db.newsletter_subscriptions :
          r.subscribed_at # r.updated_at /\ r.email = MailA

(* The reference rows a list of submitted codes selects: active rows whose   *)
(* code occurs in the list.                                                  *)
ActiveSelected(codes) ==
    {g \in age_groups : g.active /\ \E i \in 1..Len(codes) : codes[i] = g.code}

HasUnresolvedCode(codes) ==
    \E i \in 1..Len(codes) : ~\E g \in age_groups : g.active /\ g.code = codes[i]

JoinRowsOf(id) == {j \in db.inquiry_age_groups : j.inquiry_id = id}

(* C2 as stated: a parent payload that contains a code with no active         *)
(* reference row is answered 500 with none of its rows persisted.             *)
C2_AnyUnresolvedCodeFails ==
    \A h \in Handlers :
        (/\ resp[h].sub.kind = "parent"
         /\ resp[h].status # 0
         /\ HasUnresolvedCode(resp[h].sub.value.ageGroups.v))
        => (resp[h].status = 500 /\ ~HasRows(resp[h].sub.inquiryId))

(* C2, amended: a parent payload none of whose codes has an active reference  *)
(* row is answered 500 with none of its rows persisted, and it never gets     *)
(* past the lookup; a payload with at least one active code is not failed by  *)
(* the lookup, and on 201 its join rows are exactly the active rows selected. *)
C2_NoActiveCodeFails ==
    \A h \in Handlers :
        /\ (req[h].kind = "parent" /\ ActiveSelected(req[h].value.ageGroups.v) = {})
              => pc[h] \in {"insert", "lookup"}
        /\ (resp[h].sub.kind = "parent" /\ resp[h].status # 0
            /\ ActiveSelected(resp[h].sub.value.ageGroups.v) = {})
              => (resp[h].status = 500 /\ ~HasRows(resp[h].sub.inquiryId))
        /\ resp[h].sub.failedAt = "no_age_group"
              => ActiveSelected(resp[h].sub.value.ageGroups.v) = {}
        /\ (resp[h].status = 201 /\ resp[h].sub.kind = "parent")
              => JoinRowsOf(resp[h].id) =
                    {[inquiry_id |-> resp[h].id, age_group_id |-> g.id] :
                        g \in ActiveSelected(resp[h].sub.value.ageGroups.v)}

(* C2's cases: the lookup failed a payload whose only code is inactive, and   *)
(* a payload mixing an inactive code with an active one was answered 201.     *)
C2_Witness ==
    /\ age_groups = AgeGroupsPartial
    /\ resp["h1"].status = 500
    /\ resp["h1"].sub.failedAt = "no_age_group"
    /\ resp["h1"].sub.inquiryId > 0
    /\ resp["h1"].sub.value.ageGroups.v = <<"9-13">>
    /\ \E i \in db.inquiries :
          /\ i.email = MailA
          /\ JoinRowsOf(i.id) = {[inquiry_id |-> i.id, age_group_id |-> <<"ag", "6-9">>]}

(* C3: on 201 for a parent submission the detail row's primary age group is   *)
(* an active selected row of lowest sort order, whatever the order and the    *)
(* repetitions of the submitted codes.                                        *)
C3_PrimaryIsLowestSortOrder ==
    \A h \in Handlers :
        (resp[h].status = 201 /\ resp[h].sub.kind = "parent") =>
            \E p \in db.inquiry_parent :
                /\ p.inquiry_id = resp[h].id
                /\ \A p2 \in db.inquiry_parent : p2.inquiry_id = p.inquiry_id => p2 = p
                /\ \E g \in ActiveSelected(resp[h].sub.value.ageGroups.v) :
                      /\ g.id = p.primary_age_group_id
                      /\ \A g2 \in ActiveSelected(resp[h].sub.value.ageGroups.v) :
                            g.sort_order <= g2.sort_order

(* C3's case: codes submitted as 9-13, 13-16, 9-13, 6-9 against the seeded    *)
(* order persist 6-9 as primary.                                              *)
C3_Witness ==
    /\ age_groups = AgeGroupsSeeded
    /\ resp["h1"].status = 201
    /\ resp["h1"].sub.value.ageGroups.v = <<"9-13", "13-16", "9-13", "6-9">>
    /\ \E p \in db.inquiry_parent :
          p.inquiry_id = resp["h1"].id /\ p.primary_age_group_id = <<"ag", "6-9">>

PartnerRowsOf(id) == {p \in db.inquiry_partner : p.inquiry_id = id}

(* A body that meets the partner schema apart from its orgTypeOther. *)
PartnerBodyOkBut(b) ==
    /\ b.orgType.t = "str" /\ b.orgType.v \in OrgTypeCodes
    /\ partnerSchema([b EXCEPT !.orgTypeOther = Str(Club)]).error = {}

IsLabel(x) == x.t = "str" /\ x.v # <<>> /\ Len(x.v) <= 200

StoresOtherLabel(r, label) ==
    /\ Cardinality(PartnerRowsOf(r.id)) = 1
    /\ \A p \in PartnerRowsOf(r.id) : p.org_type_other = label

(* C6 as stated: with a type other than "other", whatever orgTypeOther is     *)
(* supplied, the submission is not rejected and the stored label is null.     *)
C6_AnyLabelAccepted ==
    \A h \in Handlers :
        (/\ resp[h].status # 0
         /\ PartnerBodyOkBut(resp[h].body)
         /\ resp[h].body.orgType.v # "other"
         /\ resp[h].body.orgTypeOther.t # "undef")
        => /\ resp[h].status # 400
           /\ resp[h].status = 201 => StoresOtherLabel(resp[h], Null)

C6_Stored ==
    \A h \in Handlers :
        (resp[h].status # 0 /\ PartnerBodyOkBut(resp[h].body)) =>
            LET b == resp[h].body
            IN  /\ (b.orgType.v = "other" /\ b.orgTypeOther.t = "undef")
                      => (resp[h].status = 400 /\ resp[h].sub.kind = "none")
                /\ (b.orgType.v = "other" /\ IsLabel(b.orgTypeOther))
                      => /\ resp[h].status \in {201, 500}
                         /\ resp[h].status = 201 => StoresOtherLabel(resp[h], b.orgTypeOther)
                /\ (b.orgType.v # "other"
                    /\ (b.orgTypeOther.t = "undef" \/ IsLabel(b.orgTypeOther)))
                      => /\ resp[h].status \in {201, 500}
                         /\ resp[h].status = 201 => StoresOtherLabel(resp[h], Null)
                /\ (b.orgTypeOther.t # "undef" /\ ~IsLabel(b.orgTypeOther))
                      => resp[h].status = 400
                /\ resp[h].status = 500 =>
                      \/ resp[h].sub.failedAt \in TxPcs
                      \/ ~\E o \in organization_types : o.active /\ o.code = b.orgType.v

C6_RejectedWritesNothing ==
    \A h \in Handlers :
        (resp'[h] # resp[h] /\ resp'[h].status = 400) =>
            (db' = db /\ tx' = tx /\ nextId' = nextId /\ pc' = pc)

(* C6, amended: "other" without orgTypeOther is answered 400 and the 400      *)
(* writes nothing (no table, no open transaction, no identifier drawn);       *)
(* "other" with a label (a non-empty string of at most 200 characters) is     *)
(* accepted and on 201 the partner row stores exactly that label; another     *)
(* type with no orgTypeOther or with such a label is accepted and on 201 the  *)
(* partner row stores null; an orgTypeOther that is no such label is answered *)
(* 400 whatever the type.                                                     *)
C6_OtherLabel == []C6_Stored /\ [][C6_RejectedWritesNothing]_vars

(* C6's case: a school submission carrying a label was answered 201 and its   *)
(* row stores null, after an "other" submission stored its label.             *)
C6_Witness ==
    /\ resp["h1"].status = 201
    /\ resp["h1"].body.orgType.v = "school"
    /\ resp["h1"].body.orgTypeOther = Str(Club)
    /\ StoresOtherLabel(resp["h1"], Null)
    /\ \E p \in db.inquiry_partner : p.org_type_other = Str(Club)

C5_Answered ==
    /\ \A h \in Handlers :
          /\ (pc[h] = "idle" /\ resp[h].sub.inquiryId \in hist.committed)
                => (resp[h].status = 201 /\ resp[h].id = resp[h].sub.inquiryId)
          /\ resp[h].status = 500 => resp[h].sub.inquiryId \notin hist.committed
    /\ \A c \in calls : c.state \in {"inflight", "done", "logged"}

C5_SettleKeepsResponse ==
    (\E c \in calls : c.state = "inflight" /\ c \notin calls') =>
        (resp' = resp /\ pc' = pc /\ db' = db)

(* C5: every submission whose transaction committed is answered 201 with its  *)
(* identifier, under every setting of the channels; every failure of a        *)
(* channel call (an exception, a response that is not ok) ends caught in its  *)
(* helper, and the end of a call never changes a response.                    *)
C5_NotificationsNeverFail == []C5_Answered /\ [][C5_SettleKeepsResponse]_vars

(* C5's case: a submission was answered 201 and both the chat call and the    *)
(* provider call of its summary failed afterwards.                            *)
C5_Witness ==
    /\ resp["h1"].status = 201
    /\ \E c1, c2 \in calls :
          /\ c1.id = resp["h1"].id /\ c2.id = resp["h1"].id
          /\ c1.fn = "notify" /\ c1.state = "logged"
          /\ c2.fn = "sendEmail" /\ c2.purpose = "internal" /\ c2.state = "logged"


C7_Answer ==
    adminResp.route = "patch" =>
        IF ~(adminResp.arg.t = "str" /\ adminResp.arg.v \in {"new", "read", "archived"})
        THEN adminResp.status = 400 /\ adminResp.error = "invalid_status"
        ELSE (\E r \in db.inquiries : r.id = adminResp.id) => adminResp.status = 200

C7_Step ==
    /\ (adminResp' # adminResp /\ adminResp'.status = 400) => (db' = db /\ clock' = clock)
    /\ (clock' # clock /\ hist' = hist) =>
          LET a == adminResp'
          IN  /\ a.route = "patch" /\ a.status = 200
              /\ a.arg.v \in {"new", "read", "archived"}
              /\ db'.inquiries =
                    {IF r.id = a.id
                     THEN [r EXCEPT !.status = a.arg.v, !.updated_at = clock']
                     ELSE r : r \in db.inquiries}
              /\ \A r \in db.inquiries : r.id = a.id => clock' > r.updated_at
              /\ [db' EXCEPT !.inquiries = db.inquiries] = db

(* C7: a status update whose status is outside {new, read, archived} (a      *)
(* missing one included) is answered 400 invalid_status and leaves storage   *)
(* as it was; with a status inside the set and the id of a row it is         *)
(* answered 200, and the step sets that row's status to the new value and    *)
(* its updated_at to a later time, every other column, row and table staying *)
(* as it was.                                                                *)
C7_StatusUpdate == []C7_Answer /\ [][C7_Step]_vars

(* C7's case: the update to "archived" of one of two rows was answered 200;  *)
(* that row is archived and updated after its creation, the other is new.    *)
C7_Witness ==
    /\ adminResp.route = "patch" /\ adminResp.status = 200
    /\ adminResp.arg = Str("archived")
    /\ \E r, o \in db.inquiries :
          /\ r.id = adminResp.id /\ r.status = "archived"
          /\ r.updated_at > r.created_at
          /\ o.id # r.id /\ o.status = "new" /\ o.updated_at = o.created_at

(* C8 as stated: an admin request without the header, or with a header that  *)
(* differs from the configured token, is answered 401 and carries no data,   *)
(* whatever the token's configuration, no token configured included.         *)
C8_NoHeaderIsUnauthorized ==
    (/\ adminResp.route \in {"list", "patch"}
     /\ (adminResp.header.t = "undef" \/ adminResp.header # env.ADMIN_TOKEN))
    => (adminResp.status = 401 /\ adminResp.error = "unauthorized" /\ adminResp.data = <<>>)

(* C9 as stated: a status update is answered ok only when a row with that id *)
(* exists.                                                                   *)
C9_OkOnlyForExistingRow ==
    (adminResp.route = "patch" /\ adminResp.status = 200) =>
        \E r \in db.inquiries : r.id = adminResp.id

RECURSIVE IsPrefix(_, _)
IsPrefix(q, s) ==
    \/ q = <<>>
    \/ s # <<>> /\ Head(q) = Head(s) /\ IsPrefix(Tail(q), Tail(s))

RECURSIVE Occurs(_, _)
Occurs(q, s) == IsPrefix(q, s) \/ (s # <<>> /\ Occurs(q, Tail(s)))

LiteralMatch(r, q) ==
    \/ Occurs(LowerText(q), LowerText(r.full_name))
    \/ Occurs(LowerText(q), LowerText(r.email))

(* C10 as stated: a listing returns exactly the rows that meet every filter  *)
(* supplied, the text query matching iff it occurs without regard to case as *)
(* a literal substring of the full name or the email and the status filter   *)
(* iff it equals the row's status, newest first and at most 200 rows.        *)
C10_ListingStep ==
    (adminResp' # adminResp /\ adminResp'.route = "list" /\ adminResp'.status = 200) =>
        LET a == adminResp'
            data == a.data
            want == {r \in db.inquiries :
                        /\ a.arg.t = "str" /\ a.arg.v # "" => r.status = a.arg.v
                        /\ a.q.t = "str" => LiteralMatch(r, a.q.v)}
        IN  /\ {data[i] : i \in 1..Len(data)} = want
            /\ Len(data) = Cardinality(want)
            /\ Len(data) <= 200
            /\ \A i, j \in 1..Len(data) : i < j => data[i].created_at >= data[j].created_at

C10_LiteralSubstring == [][C10_ListingStep]_vars


C11_Step ==
    /\ \A h \in Handlers :
          (resp'[h] # resp[h] /\ resp'[h].status = 400) =>
              (db' = db /\ tx' = tx /\ calls' = calls)
    /\ (adminResp' # adminResp /\ adminResp'.status = 401) =>
          (db' = db /\ tx' = tx /\ calls' = calls)

(* C11: the step that answers a submission with 400, and the step that       *)
(* answers an admin request with 401, leave every table as it was (the five  *)
(* tables and the writes of open transactions) and start no notification     *)
(* call.                                                                     *)
C11_RejectedBeforeAnyWrite == [][C11_Step]_vars

(* C11's case: after a submission was stored and its notifications started,  *)
(* a submission was answered 400 and a status update of the stored row 401,  *)
(* and the row is still new.                                                 *)
C11_Witness ==
    /\ resp["h1"].status = 400
    /\ adminResp.route = "patch" /\ adminResp.status = 401
    /\ calls # {}
    /\ \E r \in db.inquiries :
          r.id = adminResp.id /\ r.status = "new" /\ r.updated_at = r.created_at


HasOrgTypeOrPartnerSource(b) ==
    b.orgType.t # "undef" \/ (b.source.t = "str" /\ b.source.v = PartnersPage)

C12_Answered(r) ==
    LET b == r.body
        partner == HasOrgTypeOrPartnerSource(b)
        errors == IF partner THEN partnerSchema(b).error ELSE parentSchema(b).error
    IN  /\ (r.status = 400) <=> (errors # {})
        /\ r.status = 400 => r.errors = errors
        /\ r.status = 201 =>
              /\ \E i \in db.inquiries :
                    i.id = r.id /\ i.kind = IF partner THEN "partner" ELSE "parent"
              /\ (\E d \in db.inquiry_partner : d.inquiry_id = r.id) <=> partner
              /\ (\E d \in db.inquiry_parent : d.inquiry_id = r.id) <=> ~partner

(* C12: a payload is treated as a partner payload iff it has an orgType       *)
(* field (whatever its value) or its source is "partners-page", and as a      *)
(* parent payload otherwise.  Every answered submission was validated by the  *)
(* schema of that kind alone (400 iff that schema finds an error, with its    *)
(* errors), and on 201 the inquiry row has that kind and the detail row of    *)
(* that kind.                                                                 *)
C12_ClassifiedByShape ==
    \A h \in Handlers : resp[h].status # 0 => C12_Answered(resp[h])

(* C12's case: a payload without orgType whose source is "partners-page" and  *)
(* which the parent schema accepts was answered 400, after a payload with     *)
(* orgType and the source "website" was stored as a partner inquiry.          *)
C12_Witness ==
    /\ resp["h1"].status = 400
    /\ resp["h1"].body.orgType.t = "undef"
    /\ resp["h1"].body.source = Str(PartnersPage)
    /\ parentSchema(resp["h1"].body).error = {}
    /\ \E i \in db.inquiries : i.kind = "partner" /\ i.source = Website


(* C13 as stated: a GET of /api/admin/inquiries and a PATCH of               *)
(* /api/admin/inquiries/:id/status that carry the right token are answered   *)
(* by the listing and the status update (200, or 400 invalid_status), not by *)
(* the 404 of /api.                                                          *)
C13_AdminPathsReachHandlers ==
    (/\ adminResp.header = env.ADMIN_TOKEN
     /\ \/ adminResp.method = "GET" /\ adminResp.path = AdminMount
        \/ /\ adminResp.method = "PATCH"
           /\ Len(adminResp.path) = 5
           /\ SubSeq(adminResp.path, 1, 3) = AdminMount
           /\ adminResp.path[5] = "status")
    => (adminResp.route # "not_found" /\ adminResp.status \in {200, 400})


CallsOf(id) == {c \in calls : c.id = id}

C14_Started ==
    /\ \A c \in calls : c.id \in hist.committed
    /\ \A h \in Handlers :
          /\ pc[h] # "idle" => CallsOf(req[h].inquiryId) = {}
          /\ resp[h].status \in {400, 500} => CallsOf(resp[h].sub.inquiryId) = {}

C14_Step ==
    LET started == {c \in calls' :
                       ~\E d \in calls : d.id = c.id /\ d.fn = c.fn /\ d.purpose = c.purpose}
    IN  \A c \in started :
            /\ c.state = "inflight"
            /\ c.id \in hist.committed
            /\ \E h \in Handlers :
                  /\ pc[h] = "committed" /\ req[h].inquiryId = c.id
                  /\ resp'[h].status = 201 /\ resp'[h].id = c.id

(* C14: every notification call belongs to a submission whose transaction    *)
(* has committed; none exists for a submission that is still in its          *)
(* transaction, was answered 400 or was answered 500.  The calls of a        *)
(* submission start in the step that writes its 201, after the commit, and   *)
(* are still in flight when that response is written.                        *)
C14_DispatchAfterCommit == []C14_Started /\ [][C14_Step]_vars

(* C14's case: the 201 of a submission is written while its chat call and    *)
(* its two e-mail calls are all in flight.                                   *)
C14_Witness ==
    /\ resp["h1"].status = 201
    /\ Cardinality(CallsOf(resp["h1"].id)) = 3
    /\ \A c \in CallsOf(resp["h1"].id) : c.state = "inflight"


SmtpFullySet == env.SMTP_HOST /\ env.SMTP_USER /\ env.SMTP_PASS /\ env.SMTP_TO

ProviderFullySet == env.RESEND_API_KEY /\ env.RESEND_FROM /\ env.RESEND_TO

Attempted(id, fn, purpose) == \E c \in CallsOf(id) : c.fn = fn /\ c.purpose = purpose

(* C15 as stated: for a submission answered 201 (with fetch available), the  *)
(* chat call is made iff the webhook URL is set; the internal summary goes   *)
(* through SMTP if host, user, password and recipients are all set,          *)
(* otherwise through the HTTP provider if key, sender and recipients are all *)
(* set, otherwise nowhere.                                                   *)
C15_ChannelSelection ==
    \A h \in Handlers :
        (resp[h].status = 201 /\ env.gfetch) =>
            LET id == resp[h].id
            IN  /\ Attempted(id, "notify", "summary") <=> env.SLACK_WEBHOOK_URL
                /\ Attempted(id, "sendSMTPEmail", "internal") <=> SmtpFullySet
                /\ Attempted(id, "sendEmail", "internal")
                      <=> (~SmtpFullySet /\ ProviderFullySet)


C16_Persisted ==
    \A r \in db.inquiries :
        /\ r.status \in {"new", "read", "archived"}
        /\ r.spam_flag = FALSE
        /\ r.consent = TRUE
        /\ \A s \in {"new", "read", "archived"} :
              clock - hist.accepted < MaxUpdates =>
                  ENABLED (/\ AdminSetStatus(env.ADMIN_TOKEN, r.id, Str(s))
                           /\ \E n \in db'.inquiries : n.id = r.id /\ n.status = s)

C16_Created ==
    \A n \in db'.inquiries :
        (~\E r \in db.inquiries : r.id = n.id) => n.status = "new"

(* C16: every persisted inquiry has its status in {new, read, archived}, its *)
(* spam flag false and its consent true; a row enters the table with status  *)
(* new; and whatever the status of a row, one status update with the token   *)
(* can set it to each of the three.                                          *)
C16_StatusEnum == []C16_Persisted /\ [][C16_Created]_vars

(* C16's case: a row that was moved away from new is new again after an      *)
(* update to "new" answered 200.                                             *)
C16_Witness ==
    /\ adminResp.route = "patch" /\ adminResp.status = 200
    /\ adminResp.arg = Str("new")
    /\ \E r \in db.inquiries :
          /\ r.id = adminResp.id /\ r.status = "new"
          /\ r.updated_at > r.created_at + 1


ParentRowsOf(id) == {p \in db.inquiry_parent : p.inquiry_id = id}

C17_Owned ==
    /\ \A i \in db.inquiries :
          /\ \A o \in db.inquiries : o.id = i.id => o = i
          /\ i.kind \in {"parent", "partner"}
          /\ i.kind = "parent" =>
                /\ Cardinality(ParentRowsOf(i.id)) = 1
                /\ \A p \in ParentRowsOf(i.id) :
                      /\ p.number_of_kids \in 1..12
                      /\ [inquiry_id |-> i.id, age_group_id |-> p.primary_age_group_id]
                            \in JoinRowsOf(i.id)
                /\ JoinRowsOf(i.id) # {}
                /\ \A j \in JoinRowsOf(i.id) :
                      \E g \in age_groups : g.active /\ g.id = j.age_group_id
                /\ PartnerRowsOf(i.id) = {}
          /\ i.kind = "partner" =>
                /\ Cardinality(PartnerRowsOf(i.id)) = 1
                /\ ParentRowsOf(i.id) = {}
                /\ JoinRowsOf(i.id) = {}
    /\ \A d \in db.inquiry_parent \cup db.inquiry_partner \cup db.inquiry_age_groups :
          \E i \in db.inquiries : i.id = d.inquiry_id
    /\ \A h \in Handlers :
          (resp[h].status = 201 /\ resp[h].sub.kind = "parent") =>
              {j.age_group_id : j \in JoinRowsOf(resp[h].id)}
                  = {g.id : g \in ActiveSelected(resp[h].body.ageGroups.v)}

C17_Step ==
    /\ \A i \in db.inquiries : \E n \in db'.inquiries : n.id = i.id /\ n.kind = i.kind
    /\ db.inquiry_parent \subseteq db'.inquiry_parent
    /\ db.inquiry_partner \subseteq db'.inquiry_partner
    /\ db.inquiry_age_groups \subseteq db'.inquiry_age_groups
    /\ (clock' # clock /\ hist' = hist) =>
          /\ db'.inquiry_parent = db.inquiry_parent
          /\ db'.inquiry_partner = db.inquiry_partner
          /\ db'.inquiry_age_groups = db.inquiry_age_groups
          /\ {i.id : i \in db'.inquiries} = {i.id : i \in db.inquiries}

(* C17: in the committed tables every parent inquiry owns exactly one        *)
(* inquiry_parent row (1 to 12 kids), no inquiry_partner row, and one join   *)
(* row per distinct active age group its codes resolved to, at least one and *)
(* the primary among them; every partner inquiry owns exactly one            *)
(* inquiry_partner row and no parent or join row; no detail or join row is   *)
(* without its inquiry; no step changes the kind of an inquiry or removes a  *)
(* detail row, and a status update adds and removes no row.                  *)
C17_Ownership == []C17_Owned /\ [][C17_Step]_vars

(* C17's case: a parent inquiry with two join rows, from four codes of which *)
(* one is repeated and inactive, and a partner inquiry are both stored, and  *)
(* the parent inquiry has been archived.                                     *)
C17_Witness ==
    \E i, o \in db.inquiries :
        /\ i.kind = "parent" /\ i.status = "archived"
        /\ Cardinality(JoinRowsOf(i.id)) = 2
        /\ o.kind = "partner"
        /\ \E g \in age_groups : ~g.active

=============================================================================
